---- MODULE Spec2Model ----
(***************************************************************************)
(* Model of the WebAudio lip-sync pipeline of RPM-agora-agent:             *)
(*   - the useLipSync hook (src/src/hooks/useLipSync.jsx): the analysis    *)
(*     graph, the requestAnimationFrame loop and the viseme decision tree; *)
(*   - the Visualizer effect that hands (viseme, volume) to the App;       *)
(*   - the lip-sync part of the Avatar's useFrame callback.                *)
(*                                                                         *)
(* Numbers.  The code computes in IEEE doubles; the model computes the     *)
(* same quantities as exact rationals over fixed denominators:             *)
(*   volume            = sum of the bins / LevelDen      (LevelDen=128*255)*)
(*   f1..highF         = band sum * weight / FormantDen  (FormantDen=120)  *)
(*   visemeTransition  = units / ProgressScale                             *)
(*   deltaTime         = units / TimeScale seconds                         *)
(* A comparison such as nf1 > 0.25 becomes 4*F1 > total.                   *)
(***************************************************************************)
EXTENDS Integers, Sequences, FiniteSets, TLC

\* ------------------------------------------------------------------ bounds
MaxTicks == 3          \* analysis ticks explored per behaviour
MaxIds == 3            \* requestAnimationFrame handles that may be live at once
MaxNodes == 2          \* audio nodes of one kind that may be created
MaxRun == 21           \* lip-sync frames counted on one label
MaxRequests == 2       \* PlayFab requests started per behaviour

\* ------------------------------------------------------- program constants
NumBins == 128         \* analyser.frequencyBinCount = fftSize / 2
ByteMax == 255         \* Uint8Array magnitude range, the divisor of volume
NumBands == 8          \* visualisation bands
Gain == 4              \* activeAudioLevel * 4.0
TransitionRate == 20   \* deltaTime * 20

LevelDen == NumBins * ByteMax
FormantDen == 120      \* lcm of the band widths 8, 12, 20, 30, 40
ProgressScale == 30    \* visemeTransition = units / 30
TimeScale == 600       \* deltaTime = units / 600 s, so 60 Hz is 10 units

Null == 0
NoViseme == "none"

Min(a, b) == IF a < b THEN a ELSE b

\* The Oculus viseme blend-shape names of the avatar.
oculusVisemes ==
  {"viseme_sil", "viseme_PP", "viseme_FF", "viseme_TH", "viseme_DD",
   "viseme_kk", "viseme_CH", "viseme_SS", "viseme_nn", "viseme_RR",
   "viseme_aa", "viseme_E", "viseme_I", "viseme_O", "viseme_U"}

\* The codes of the viseme buttons of the BlendShapeController, which
\* onVisemeSelect hands to the App and the App to the Avatar as manualViseme.
VisemeCodes == {"A", "B", "C", "D", "E", "F", "G", "H", "X"}

\* The morph targets of the avatar that the lip-sync section drives.
MorphTargets == oculusVisemes \cup {"jawOpen"}

\* lerpMorphTarget(target, ...) moves the targets the avatar has; for any
\* other name morphTargetDictionary[target] is undefined and it returns.
Lerped(targets) == targets \cap MorphTargets

\* ---------------------------------------------------------------- frames
\* A frame is given by one magnitude per region of bins; the regions are the
\* five formant slices of the classifier and the uncovered tail 110..127.
RegionOf(i) ==
  IF i < 8 THEN 1 ELSE IF i < 20 THEN 2 ELSE IF i < 40 THEN 3
  ELSE IF i < 70 THEN 4 ELSE IF i < 110 THEN 5 ELSE 6

\* getByteFrequencyData: the Uint8Array the analyser fills for signal s.
FrequencyData(s) == [i \in 0..(NumBins - 1) |-> s[RegionOf(i)]]

RECURSIVE SumRange(_, _, _)
\* dataArray.slice(lo, hi).reduce((sum, val) => sum + val, 0)
\* (eight elements per step where the slice allows)
SumRange(d, lo, hi) ==
  IF lo >= hi THEN 0
  ELSE IF hi - lo >= 8
    THEN d[lo] + d[lo + 1] + d[lo + 2] + d[lo + 3] + d[lo + 4] + d[lo + 5]
         + d[lo + 6] + d[lo + 7] + SumRange(d, lo + 8, hi)
  ELSE d[lo] + SumRange(d, lo + 1, hi)

RECURSIVE WeightedSum(_, _, _)
\* sum over i of i * dataArray[i]  (the centroid's numerator in bin units)
WeightedSum(d, lo, hi) ==
  IF lo >= hi THEN 0
  ELSE IF hi - lo >= 4
    THEN lo * d[lo] + (lo + 1) * d[lo + 1] + (lo + 2) * d[lo + 2]
         + (lo + 3) * d[lo + 3] + WeightedSum(d, lo + 4, hi)
  ELSE lo * d[lo] + WeightedSum(d, lo + 1, hi)

Silence == <<0, 0, 0, 0, 0, 0>>

\* The frames the analysis loop is fed.
Signals ==
  { <<0, 0, 0, 0, 0, 0>>,          \* silence
    <<4, 4, 4, 4, 4, 4>>,          \* volume 4/255: between 0.01 and 0.02
    <<0, 0, 0, 0, 0, 255>>,        \* energy only in bins 110..127
    <<200, 0, 0, 0, 0, 0>>,        \* low band only
    <<0, 0, 0, 0, 220, 0>>,        \* high band only
    <<10, 10, 10, 10, 220, 10>>,   \* high band, the rest low
    <<44, 20, 0, 0, 136, 0>>,      \* high band with a moderate low band
    <<44, 20, 36, 40, 60, 0>>,     \* moderate high band
    <<80, 0, 0, 0, 0, 0>>,         \* quiet overall (volume 0.0196), loud in bins 0..7
    <<60, 60, 60, 60, 60, 60>>,    \* flat spectrum
    <<255, 255, 255, 255, 255, 255>> }   \* every bin at the maximum

\* A wider family of frames for the classifier alone: every region at one of
\* these magnitudes.
Magnitudes == {0, 4, 38, 220}
WideFrames ==
  {<<a, b, c, d, e, f>> : a \in Magnitudes, b \in Magnitudes, c \in Magnitudes,
                          d \in Magnitudes, e \in Magnitudes, f \in Magnitudes}
Frames == Signals \cup WideFrames
NoSignal == <<>>

\* -------------------------------------------------- spectral features
\* An energy floor that only excludes the division by zero.
AboveZeroEnergy(total) == total > 0

\* The gate at the older threshold, volume > 0.01.
AboveSilenceLoose(sum) == 100 * sum > LevelDen

\* volume > 0.02, with volume = (sum / 128) / 255
AboveSilence(sum) == 50 * sum > LevelDen

\* totalEnergy > 10, with totalEnergy = total / FormantDen
AboveEnergyFloor(total) == total > 10 * FormantDen

\* The chain of rules with the sibilant rule moved ahead of the 'oo' rule.
DecisionTreeSibilantFirst(F1, F2, F3, F4, HF, T, rnd) ==
  IF 4 * F1 > T /\ 5 * F2 < T THEN "viseme_aa"
  ELSE IF 4 * F2 > T /\ 5 * HF > T THEN "viseme_I"
  ELSE IF 5 * F1 > T /\ 5 * F2 > T THEN "viseme_E"
  ELSE IF 20 * HF > 7 * T THEN (IF rnd THEN "viseme_SS" ELSE "viseme_CH")
  ELSE IF 20 * F1 < 3 * T /\ 5 * F2 < T /\ 4 * HF > T THEN "viseme_U"
  ELSE IF 5 * F1 < T /\ 5 * F2 > T /\ 5 * F3 > T THEN "viseme_O"
  ELSE IF 4 * HF > T THEN (IF rnd THEN "viseme_FF" ELSE "viseme_TH")
  ELSE IF 20 * F1 < 3 * T /\ 5 * F2 < T /\ 5 * HF < T THEN "viseme_PP"
  ELSE IF 5 * F2 < T /\ 5 * F3 > T THEN "viseme_kk"
  ELSE "viseme_DD"

\* The chain of rules with the sibilant rule tested first of all.
DecisionTreeSibilantTop(F1, F2, F3, F4, HF, T, rnd) ==
  IF 20 * HF > 7 * T THEN (IF rnd THEN "viseme_SS" ELSE "viseme_CH")
  ELSE IF 4 * F1 > T /\ 5 * F2 < T THEN "viseme_aa"
  ELSE IF 4 * F2 > T /\ 5 * HF > T THEN "viseme_I"
  ELSE IF 5 * F1 > T /\ 5 * F2 > T THEN "viseme_E"
  ELSE IF 20 * F1 < 3 * T /\ 5 * F2 < T /\ 4 * HF > T THEN "viseme_U"
  ELSE IF 5 * F1 < T /\ 5 * F2 > T /\ 5 * F3 > T THEN "viseme_O"
  ELSE IF 4 * HF > T THEN (IF rnd THEN "viseme_FF" ELSE "viseme_TH")
  ELSE IF 20 * F1 < 3 * T /\ 5 * F2 < T /\ 5 * HF < T THEN "viseme_PP"
  ELSE IF 5 * F2 < T /\ 5 * F3 > T THEN "viseme_kk"
  ELSE "viseme_DD"

\* The if / else-if chain over the normalized formants nfk = Fk / T.
\* rnd is the outcome of Math.random() > 0.5.
DecisionTree(F1, F2, F3, F4, HF, T, rnd) ==
  IF 4 * F1 > T /\ 5 * F2 < T THEN "viseme_aa"             \* nf1 > 0.25 && nf2 < 0.2
  ELSE IF 4 * F2 > T /\ 5 * HF > T THEN "viseme_I"         \* nf2 > 0.25 && nhighF > 0.2
  ELSE IF 5 * F1 > T /\ 5 * F2 > T THEN "viseme_E"         \* nf1 > 0.2 && nf2 > 0.2
  ELSE IF 20 * F1 < 3 * T /\ 5 * F2 < T /\ 4 * HF > T      \* nf1 < 0.15 && nf2 < 0.2 && nhighF > 0.25
    THEN "viseme_U"
  ELSE IF 5 * F1 < T /\ 5 * F2 > T /\ 5 * F3 > T           \* nf1 < 0.2 && nf2 > 0.2 && nf3 > 0.2
    THEN "viseme_O"
  ELSE IF 20 * HF > 7 * T                                  \* nhighF > 0.35
    THEN (IF rnd THEN "viseme_SS" ELSE "viseme_CH")
  ELSE IF 4 * HF > T                                       \* nhighF > 0.25
    THEN (IF rnd THEN "viseme_FF" ELSE "viseme_TH")
  ELSE IF 20 * F1 < 3 * T /\ 5 * F2 < T /\ 5 * HF < T      \* nf1 < 0.15 && nf2 < 0.2 && nhighF < 0.2
    THEN "viseme_PP"
  ELSE IF 5 * F2 < T /\ 5 * F3 > T THEN "viseme_kk"        \* nf2 < 0.2 && nf3 > 0.2
  ELSE "viseme_DD"

\* The formant band means f1, f2, f3, f4, highF of the frame d, each times
\* FormantDen.
FormantBands(d) ==
  << 15 * SumRange(d, 0, 8),       \* f1 = slice(0, 8) / 8
     10 * SumRange(d, 8, 20),      \* f2 = slice(8, 20) / 12
     6 * SumRange(d, 20, 40),      \* f3 = slice(20, 40) / 20
     4 * SumRange(d, 40, 70),      \* f4 = slice(40, 70) / 30
     3 * SumRange(d, 70, 110) >>   \* highF = slice(70, 110) / 40

\* currentViseme of one tick for the frame d.
DetectViseme(d, rnd) ==
  LET sum == SumRange(d, 0, NumBins)
      F == FormantBands(d)
      F1 == F[1]
      F2 == F[2]
      F3 == F[3]
      F4 == F[4]
      HF == F[5]
      T == F1 + F2 + F3 + F4 + HF
  IN IF AboveSilence(sum) /\ AboveEnergyFloor(T)
       THEN DecisionTree(F1, F2, F3, F4, HF, T, rnd)
       ELSE "viseme_sil"

\* The features with each band's slice one bin short.
ExtractFeaturesShortBands(d) ==
  LET sum == SumRange(d, 0, NumBins)
      bandSize == NumBins \div NumBands
  IN [volume |-> sum,
      centroid |-> IF sum > 0 THEN <<WeightedSum(d, 0, NumBins), sum>> ELSE <<0, 1>>,
      bands |-> [k \in 1..NumBands |->
                   SumRange(d, (k - 1) * bandSize, (k - 1) * bandSize + bandSize - 1)]]

\* The features object of one tick:
\*   volume   = volume / LevelDen,
\*   centroid = <<num, den>>, num / den in bin widths (0 when the frame is empty),
\*   bands[k] = sum of band k, the value being bands[k] / (bandSize * 255).
ExtractFeatures(d) ==
  LET sum == SumRange(d, 0, NumBins)
      bandSize == NumBins \div NumBands
  IN [volume |-> sum,
      centroid |-> IF sum > 0 THEN <<WeightedSum(d, 0, NumBins), sum>> ELSE <<0, 1>>,
      bands |-> [k \in 1..NumBands |->
                   SumRange(d, (k - 1) * bandSize, (k - 1) * bandSize + bandSize)]]

\* What one tick computes from the frame s when Math.random() > 0.5 is rnd:
\* the label and the features.
AnalyseFrame(s, rnd) ==
  LET d == FrequencyData(s)
  IN [viseme |-> DetectViseme(d, rnd), features |-> ExtractFeatures(d)]

\* AnalyseFrame, tabulated for the frames of the analysis loop.
Analysed == [s \in Signals |-> [rnd \in BOOLEAN |-> AnalyseFrame(s, rnd)]]
Analysis(s, rnd) == IF s \in Signals THEN Analysed[s][rnd] ELSE AnalyseFrame(s, rnd)

\* useState({ volume: 0, centroid: 0, bands: [] })
NoFeatures == [volume |-> 0, centroid |-> <<0, 1>>, bands |-> <<>>]

\* ------------------------------------------------------------- state
VARIABLES
  viseme,                 \* useState("viseme_PP")
  features,               \* useState({ volume: 0, centroid: 0, bands: [] })
  isConnected,            \* useState(false)
  animationFrameRef,      \* useRef(null): the handle of the scheduled callback
  audioAnalyserRef,       \* useRef(null): the analyser node (its number)
  audioContextRef,        \* useRef(null): the AudioContext (its number)
  contextState,           \* audioContextRef.current.state
  audioSourceConnected,   \* audioElement._audioSourceConnected, per element
  created,                \* nodes created so far: contexts, analysers, sources per element
  wired,                  \* elements whose source this hook connected to its analyser
  rafQueue,               \* the host's pending requestAnimationFrame callbacks
  tickCount,              \* executions of analyzeAudio
  lastOp,                 \* the operation that ran last
  lastAnalysis,           \* outcome of the last analyzeAudio: ok, threw, skipped
  analysed,               \* the frame the exposed viseme and features were computed from
  lastCall,               \* the last connectAudio call: element, state it found
  sinceDisconnect,        \* disconnectAudio returned and connectAudio was not called since
  propagated,             \* the last call let an exception escape to its caller
  visualizerViseme,       \* App state fed by the Visualizer (prop of Avatar)
  visualizerAudioLevel,   \* App state fed by the Visualizer, over LevelDen
  lastViseme,             \* Avatar: useRef('X')
  visemeTransition,       \* Avatar: useRef(0), over ProgressScale
  frame,                  \* what the last useFrame callback did
  run,                    \* lip-sync frames at 60 Hz since the last label change
  isAuthenticated,        \* PlayFabProvider: useState(false)
  user,                   \* PlayFabProvider: useState(null)
  sessionTicket,          \* PlayFabProvider: useState(null)
  loading,                \* PlayFabProvider: useState(false)
  error,                  \* PlayFabProvider: useState(null)
  localStorage,           \* the three playfab_* entries of window.localStorage
  pending,                \* the provider's requests in flight, each at its await
  started,                \* requests started so far
  lastAuth,               \* the provider operation or response handled last
  loggedOut               \* logout() ran and no request started after it has succeeded

hookVars ==
  <<viseme, features, isConnected, animationFrameRef, audioAnalyserRef,
    audioContextRef, contextState, audioSourceConnected, created, wired,
    rafQueue, tickCount, lastOp, lastAnalysis, analysed, lastCall, sinceDisconnect,
    propagated>>
appVars == <<visualizerViseme, visualizerAudioLevel>>
avatarVars == <<lastViseme, visemeTransition, frame, run>>
authVars ==
  <<isAuthenticated, user, sessionTicket, loading, error, localStorage, pending,
    started, lastAuth, loggedOut>>
vars == <<hookVars, appVars, avatarVars, authVars>>

\* ------------------------------------------------ PlayFabProvider: values
Absent == "null"             \* null: a state value or a missing storage entry
Undefined == "undefined"     \* an argument or a property that is undefined

UserKeys == {"PlayFabId", "Username", "Email", "CustomId"}
KeyOrder == <<"PlayFabId", "Username", "Email", "CustomId">>

\* A user object: its own property names and what reading each name gives.
UserObject(keys, PlayFabId, Username, Email, CustomId) ==
  [keys |-> keys,
   fields |-> [PlayFabId |-> PlayFabId, Username |-> Username, Email |-> Email,
               CustomId |-> CustomId]]

\* useState(null) for user
NoUser == UserObject({}, Undefined, Undefined, Undefined, Undefined)

\* JSON.stringify(object): the text, as the opening brace and the
\* "key": value members in property order; a property whose value is
\* undefined is left out.
JsonStringify(u) ==
  <<<<"{", "">>>> \o
  SelectSeq([i \in 1..Len(KeyOrder) |-> <<KeyOrder[i], u.fields[KeyOrder[i]]>>],
            LAMBDA m : m[1] \in u.keys /\ m[2] # Undefined)

\* JSON.parse(text): the object with the members of the text.
JsonParse(text) ==
  LET members == {text[i] : i \in 2..Len(text)}
      Value(k) == IF \E m \in members : m[1] = k
                    THEN (CHOOSE m \in members : m[1] = k)[2]
                    ELSE Undefined
  IN UserObject({m[1] : m \in members},
                Value("PlayFabId"), Value("Username"), Value("Email"), Value("CustomId"))

\* localStorage.getItem gives null for this
NoItem == <<>>

EmptyStorage ==
  [playfab_session_ticket |-> Absent, playfab_user |-> NoItem,
   playfab_custom_id |-> Absent]

NoAuth ==
  [op |-> "none", outcome |-> "none", step |-> Absent, message |-> Absent,
   stale |-> FALSE]

\* The provider as mounted on an empty localStorage.
AuthInit ==
  /\ isAuthenticated = FALSE
  /\ user = NoUser
  /\ sessionTicket = Absent
  /\ loading = FALSE
  /\ error = Absent
  /\ localStorage = EmptyStorage
  /\ pending = {}
  /\ started = 0
  /\ lastAuth = NoAuth
  /\ loggedOut = FALSE

Elements == {"audioA", "audioB"}
NoElement == "null"

NoFrame ==
  [outcome |-> "none", level |-> 0, intensity |-> 0, applied |-> {},
   dt |-> 0, from |-> 0, agora |-> NoViseme]

NoNodes == [contexts |-> 0, analysers |-> 0, sources |-> [e \in Elements |-> 0]]

NoCall ==
  [el |-> NoElement, again |-> FALSE, reconnect |-> FALSE, created |-> NoNodes,
   ticks |-> 0]

\* The state right after the components are constructed.
Init ==
  /\ viseme = "viseme_PP"
  /\ features = NoFeatures
  /\ isConnected = FALSE
  /\ animationFrameRef = Null
  /\ audioAnalyserRef = Null
  /\ audioContextRef = Null
  /\ contextState = "none"
  /\ audioSourceConnected = [e \in Elements |-> FALSE]
  /\ created = NoNodes
  /\ wired = {}
  /\ rafQueue = {}
  /\ tickCount = 0
  /\ lastOp = "init"
  /\ lastAnalysis = "none"
  /\ analysed = NoSignal
  /\ lastCall = NoCall
  /\ sinceDisconnect = FALSE
  /\ propagated = FALSE
  /\ visualizerViseme = NoViseme
  /\ visualizerAudioLevel = 0
  /\ lastViseme = "X"
  /\ visemeTransition = 0
  /\ frame = NoFrame
  /\ run = 0
  /\ AuthInit

\* ------------------------------------------------ the host's frame queue
\* requestAnimationFrame(cb): a handle that no pending callback holds.
RequestAnimationFrame(queue) ==
  CHOOSE i \in 1..(MaxIds + 1) : i \notin queue /\ \A j \in 1..(i - 1) : j \in queue

\* A cancel that leaves the callback in the host's queue.
CancelNothing(queue, id) == queue

\* cancelAnimationFrame(id)
CancelAnimationFrame(queue, id) == queue \ {id}

\* ------------------------------------------------------- analyzeAudio
\* The try block is left at the statement that throws, before setViseme.
AnalysisOutcome(analyser, context, threw) ==
  IF analyser = Null \/ context = Null THEN "skipped"
  ELSE IF threw THEN "threw"
  ELSE "ok"

\* The rescheduling statement placed inside the try block.
ReschedulesInsideTry(outcome) == outcome # "threw"

\* requestAnimationFrame(analyzeAudio) follows the try/catch: it runs whatever
\* the outcome of the analysis.
Reschedules(outcome) == TRUE

\* One execution of analyzeAudio, with the graph (analyser, context) it finds
\* and the host queue as it is when the callback starts.
AnalyzeAudio(analyser, context, queue, s, rnd, threw) ==
  LET outcome == AnalysisOutcome(analyser, context, threw)
      id == RequestAnimationFrame(queue)
      result == Analysis(s, rnd)
  IN /\ viseme' = IF outcome = "ok" THEN result.viseme ELSE viseme
     /\ features' = IF outcome = "ok" THEN result.features ELSE features
     /\ analysed' = IF outcome = "ok" THEN s ELSE analysed
     /\ lastAnalysis' = outcome
     /\ tickCount' = tickCount + 1
     /\ IF Reschedules(outcome)
          THEN animationFrameRef' = id /\ rafQueue' = queue \cup {id}
          ELSE UNCHANGED animationFrameRef /\ rafQueue' = queue

\* The host runs the scheduled callback id.
Tick(id, s, rnd, threw) ==
  /\ id \in rafQueue
  /\ tickCount < MaxTicks
  /\ Cardinality(rafQueue) <= MaxIds
  /\ AnalyzeAudio(audioAnalyserRef, audioContextRef, rafQueue \ {id}, s, rnd, threw)
  /\ lastOp' = "tick"
  /\ propagated' = FALSE
  /\ UNCHANGED <<isConnected, audioAnalyserRef, audioContextRef, contextState,
                 audioSourceConnected, created, wired, lastCall, sinceDisconnect>>
  /\ UNCHANGED <<appVars, avatarVars, authVars>>

\* ------------------------------------------------------- connectAudio
\* The statements of the try block in order; "none" is no failure.
StageRank ==
  [context |-> 1, analyser |-> 2, source |-> 3, connected |-> 4, none |-> 5]

\* The statement `stage` of the try block ran to completion when `fail` is
\* the statement that throws: a throw leaves the block at once.
Completed(stage, fail) == StageRank[stage] < StageRank[fail]

\* A try block that opens after the AudioContext is created.
TryFromAnalyser(stage) == stage \in {"analyser", "source"}

\* try { ... } catch: the statements the try block holds.
InTryBlock(stage) == stage \in {"context", "analyser", "source"}

\* A loop guard that lets startAnalysis run whatever the handle holds.
LoopIdleAlways(handle) == TRUE

\* if (!animationFrameRef.current) startAnalysis(), and startAnalysis's own
\* if (animationFrameRef.current) return
LoopIdle(handle) == handle = Null

\* A source guard that ignores the element's flag.
SourceNeverAttached(el, flags) == FALSE

\* audioElement._audioSourceConnected
SourceAttached(el, flags) == el # NoElement /\ flags[el]

\* A reconnect branch that is never taken.
ReusesNever(el, contextRef) == FALSE

\* A first branch that is taken whatever audioContextRef holds.
ConstructsAlways(el, contextRef) == el # NoElement

\* if (audioElement && !audioContextRef.current)
NeedsConstruction(el, contextRef) == el # NoElement /\ contextRef = Null

\* else if (audioElement && audioContextRef.current)
Reuses(el, contextRef) ==
  el # NoElement /\ contextRef # Null /\ ~NeedsConstruction(el, contextRef)

\* connectAudio(el) reaches startAnalysis() and the loop is not running: the
\* call runs the first analyzeAudio.
StartsLoop(el, fail) ==
  /\ \/ NeedsConstruction(el, audioContextRef) /\ Completed("connected", fail)
     \/ Reuses(el, audioContextRef)
  /\ LoopIdle(animationFrameRef)

\* connectAudio(el).  fail: the statement of the construction that throws;
\* policy: the state the browser gives a new or resumed context; s, rnd,
\* threw: the inputs of the first analyzeAudio, which startAnalysis runs
\* synchronously.
ConnectAudio(el, fail, policy, s, rnd, threw) ==
  LET construct == NeedsConstruction(el, audioContextRef)
      reuse == Reuses(el, audioContextRef)
      flagged == SourceAttached(el, audioSourceConnected)
      ctxMade == construct /\ Completed("context", fail)
      anMade == construct /\ Completed("analyser", fail)
      srcMade == construct /\ ~flagged /\ Completed("source", fail)
      failed == construct /\ fail # "none"
      caught == failed /\ InTryBlock(fail)
      reachedEnd == construct /\ Completed("connected", fail)
      newContext == IF ctxMade THEN created.contexts + 1 ELSE audioContextRef
      newAnalyser == IF anMade THEN created.analysers + 1 ELSE audioAnalyserRef
      starts == StartsLoop(el, fail)
  IN /\ construct => created.contexts < MaxNodes /\ created.analysers < MaxNodes
     /\ ~construct => fail = "none"
     /\ fail = "source" => ~flagged
     /\ (ctxMade \/ (reuse /\ contextState = "suspended")) \/ policy = "running"
     /\ starts => tickCount < MaxTicks /\ Cardinality(rafQueue) <= MaxIds
     /\ ~starts => s = Silence /\ ~rnd /\ ~threw      \* inputs that are not read
     /\ audioContextRef' = newContext
     /\ audioAnalyserRef' = newAnalyser
     /\ contextState' =
          IF ctxMade THEN policy
          ELSE IF reuse /\ contextState = "suspended" THEN policy   \* resume()
          ELSE contextState
     /\ audioSourceConnected' =
          IF srcMade THEN [audioSourceConnected EXCEPT ![el] = TRUE]
          ELSE audioSourceConnected
     /\ wired' = IF srcMade THEN wired \cup {el} ELSE wired
     /\ created' =
          [contexts |-> IF ctxMade THEN created.contexts + 1 ELSE created.contexts,
           analysers |-> IF anMade THEN created.analysers + 1 ELSE created.analysers,
           sources |-> IF srcMade
                         THEN [created.sources EXCEPT ![el] = @ + 1]
                         ELSE created.sources]
     /\ isConnected' =
          IF caught THEN FALSE                 \* catch: setIsConnected(false)
          ELSE IF reachedEnd \/ reuse THEN TRUE
          ELSE isConnected
     /\ IF starts
          THEN AnalyzeAudio(newAnalyser, newContext, rafQueue, s, rnd, threw)
          ELSE UNCHANGED <<viseme, features, lastAnalysis, analysed, tickCount,
                           animationFrameRef, rafQueue>>
     /\ lastOp' = IF failed THEN "connectFailed"
                  ELSE IF construct \/ reuse THEN "connect"
                  ELSE "connectNoElement"
     /\ lastCall' =
          [el |-> el,
           again |-> /\ el # NoElement
                     /\ lastCall.el = el
                     /\ isConnected
                     /\ audioAnalyserRef # Null
                     /\ contextState = "running",
           reconnect |-> el # NoElement /\ lastCall.el = el /\ sinceDisconnect,
           created |-> created,
           ticks |-> tickCount]
     /\ sinceDisconnect' = FALSE
     /\ propagated' = (failed /\ ~caught)
     /\ UNCHANGED <<appVars, avatarVars, authVars>>

\* ---------------------------------------------------- disconnectAudio
\* A disconnect that also closes the context and clears both refs.
DisconnectAudioClosing ==
  /\ IF animationFrameRef # Null
       THEN /\ rafQueue' = CancelAnimationFrame(rafQueue, animationFrameRef)
            /\ animationFrameRef' = Null
       ELSE UNCHANGED <<rafQueue, animationFrameRef>>
  /\ audioContextRef' = Null
  /\ audioAnalyserRef' = Null
  /\ contextState' = "none"
  /\ isConnected' = FALSE
  /\ viseme' = "viseme_PP"
  /\ features' = NoFeatures
  /\ analysed' = NoSignal
  /\ lastOp' = "disconnect"
  /\ sinceDisconnect' = TRUE
  /\ propagated' = FALSE
  /\ UNCHANGED <<audioSourceConnected, created, wired, tickCount, lastAnalysis,
                 lastCall>>
  /\ UNCHANGED <<appVars, avatarVars, authVars>>

DisconnectAudio ==
  /\ IF animationFrameRef # Null
       THEN /\ rafQueue' = CancelAnimationFrame(rafQueue, animationFrameRef)
            /\ animationFrameRef' = Null
       ELSE UNCHANGED <<rafQueue, animationFrameRef>>
  /\ isConnected' = FALSE
  /\ viseme' = "viseme_PP"
  /\ features' = NoFeatures
  /\ analysed' = NoSignal
  /\ lastOp' = "disconnect"
  /\ sinceDisconnect' = TRUE
  /\ propagated' = FALSE
  /\ UNCHANGED <<audioAnalyserRef, audioContextRef, contextState,
                 audioSourceConnected, created, wired, tickCount, lastAnalysis,
                 lastCall>>
  /\ UNCHANGED <<appVars, avatarVars, authVars>>

\* Another instance of the hook attaches the element el to its own graph:
\* the guarded createMediaElementSource of its connectAudio.
ForeignAttach(el) ==
  /\ ~SourceAttached(el, audioSourceConnected)
  /\ created.sources[el] < MaxNodes
  /\ audioSourceConnected' = [audioSourceConnected EXCEPT ![el] = TRUE]
  /\ created' = [created EXCEPT !.sources[el] = @ + 1]
  /\ lastOp' = "foreignAttach"
  /\ propagated' = FALSE
  /\ UNCHANGED <<viseme, features, isConnected, animationFrameRef, audioAnalyserRef,
                 audioContextRef, contextState, wired, rafQueue, tickCount,
                 lastAnalysis, analysed, lastCall, sinceDisconnect>>
  /\ UNCHANGED <<appVars, avatarVars, authVars>>

Stages == {"none", "context", "analyser", "source"}
Policies == {"running", "suspended"}

\* The inputs of the first analyzeAudio are drawn when the call runs it.
ConnectStep ==
  \E el \in Elements \cup {NoElement}, fail \in Stages, policy \in Policies :
    \E s \in (IF StartsLoop(el, fail) THEN Signals ELSE {Silence}),
       rnd \in (IF StartsLoop(el, fail) THEN BOOLEAN ELSE {FALSE}),
       threw \in (IF StartsLoop(el, fail) THEN BOOLEAN ELSE {FALSE}) :
         ConnectAudio(el, fail, policy, s, rnd, threw)

TickStep ==
  \E id \in rafQueue, s \in Signals, rnd \in BOOLEAN, threw \in BOOLEAN :
       Tick(id, s, rnd, threw)

ForeignAttachStep == \E el \in Elements : ForeignAttach(el)

Next == ConnectStep \/ DisconnectAudio \/ TickStep \/ ForeignAttachStep

Spec == Init /\ [][Next]_vars

\* The host keeps delivering animation frames and the analyser its data: a
\* pending callback eventually runs with an analysis that does not throw.
OkTickStep ==
  \E id \in rafQueue, s \in Signals, rnd \in BOOLEAN : Tick(id, s, rnd, FALSE)

SpecLive == Init /\ [][Next]_vars /\ WF_vars(OkTickStep)

\* ----------------------------------------- the classifier on its own
\* The hook after connectAudio("audioA") built the graph and the first
\* analyzeAudio threw: connected, loop running, outputs still the defaults.
InitClassify ==
  /\ viseme = "viseme_PP"
  /\ features = NoFeatures
  /\ isConnected = TRUE
  /\ animationFrameRef = 1
  /\ audioAnalyserRef = 1
  /\ audioContextRef = 1
  /\ contextState = "running"
  /\ audioSourceConnected = [e \in Elements |-> e = "audioA"]
  /\ created = [contexts |-> 1, analysers |-> 1,
                sources |-> [e \in Elements |-> IF e = "audioA" THEN 1 ELSE 0]]
  /\ wired = {"audioA"}
  /\ rafQueue = {1}
  /\ tickCount = 1
  /\ lastOp = "connect"
  /\ lastAnalysis = "threw"
  /\ analysed = NoSignal
  /\ lastCall = [NoCall EXCEPT !.el = "audioA"]
  /\ sinceDisconnect = FALSE
  /\ propagated = FALSE
  /\ visualizerViseme = NoViseme
  /\ visualizerAudioLevel = 0
  /\ lastViseme = "X"
  /\ visemeTransition = 0
  /\ frame = NoFrame
  /\ run = 0
  /\ AuthInit

\* One tick of the running loop on any frame of the wide family.
ClassifyStep ==
  \E id \in rafQueue, s \in Frames, rnd \in BOOLEAN :
    /\ analysed = NoSignal
    /\ Tick(id, s, rnd, FALSE)

SpecClassify == InitClassify /\ [][ClassifyStep]_vars


\* ------------------------------------------- Visualizer -> App -> Avatar
\* The Visualizer's effect on [viseme, features]: onVisemeChange(viseme) and
\* onAudioLevelChange(features.volume || 0) set the App state that the
\* Avatar receives as visualizerViseme and visualizerAudioLevel.
VisualizerEffect ==
  /\ <<visualizerViseme, visualizerAudioLevel>> # <<viseme, features.volume>>
  /\ visualizerViseme' = viseme
  /\ visualizerAudioLevel' = features.volume
  /\ UNCHANGED <<hookVars, avatarVars, authVars>>

\* ------------------------------------------------ Avatar: useFrame
\* activeViseme && activeAudioLevel > 0.01
LipSyncGate(activeViseme, level) == activeViseme # NoViseme /\ 100 * level > LevelDen

\* A transition that advances by deltaTime alone (the rate left out).
AdvanceTransitionSlow(progress, dt) ==
  Min(progress + (dt * ProgressScale) \div TimeScale, ProgressScale)

\* Math.min(visemeTransition.current + deltaTime * 20, 1)
AdvanceTransition(progress, dt) ==
  Min(progress + (dt * TransitionRate * ProgressScale) \div TimeScale, ProgressScale)

\* The intensity without the clamp of the audio level.
IntensityUnclamped(level, progress) == level * Gain * progress

\* Math.min(activeAudioLevel * 4.0, 1.0) * visemeTransition.current,
\* over LevelDen * ProgressScale
Intensity(level, progress) == Min(level * Gain, LevelDen) * progress

\* activeAudioLevel * 0.8 * visemeTransition.current > 0.03,
\* both sides times 100 * LevelDen * ProgressScale
JawMoves(level, progress) == 80 * level * progress > 3 * LevelDen * ProgressScale

Dt60 == TimeScale \div 60

\* A transition that goes on from the accumulated progress on a new label.
TransitionKept(changed, progress) == progress

\* if (lastViseme.current !== activeViseme) visemeTransition.current = 0
TransitionBase(changed, progress) == IF changed THEN 0 ELSE progress

\* A priority that puts the Agora viseme first.
ActiveVisemeAgoraFirst(visualizer, agora) ==
  IF agora # NoViseme THEN agora ELSE visualizer

\* visualizerViseme || (lipSyncData && lipSyncData.viseme)
ActiveViseme(visualizer, agora) ==
  IF visualizer # NoViseme THEN visualizer ELSE agora

\* One useFrame callback, from the lip-sync section on.
\*   setup: the module's setupMode flag; manual: the manualViseme prop;
\*   agoraViseme, agoraLevel: lipSyncData.viseme and audioLevel of useAgora;
\*   cue: whether a message with lip-sync cues is playing and the playback
\*   time lies inside a cue ("inside"), outside every cue ("outside"), or no
\*   message is playing ("none"); dt: deltaTime.
AvatarFrame(setup, manual, agoraViseme, agoraLevel, cue, dt) ==
  LET activeViseme == ActiveViseme(visualizerViseme, agoraViseme)
      level == IF visualizerAudioLevel > 0 THEN visualizerAudioLevel ELSE agoraLevel
      lipsync == ~setup /\ manual = NoViseme /\ LipSyncGate(activeViseme, level)
      changed == lastViseme # activeViseme
      progress == AdvanceTransition(TransitionBase(changed, visemeTransition), dt)
  IN \* inputs that are not read are fixed
     /\ setup => manual = NoViseme
     /\ (setup \/ manual # NoViseme) =>
          agoraViseme = NoViseme /\ agoraLevel = 0 /\ cue = "none" /\ dt = 0
     /\ visualizerAudioLevel > 0 => agoraLevel = 0
     /\ lipsync => cue = "none"
     /\ ~lipsync => dt = 0
     /\ IF setup THEN
          /\ frame' = [NoFrame EXCEPT !.outcome = "setup"]
          /\ UNCHANGED <<lastViseme, visemeTransition, run>>
        ELSE IF manual # NoViseme THEN
          \* lerpMorphTarget(manualViseme, 1.0, 0.2); jawOpen; return
          /\ frame' = [NoFrame EXCEPT !.outcome = "manual",
                                      !.applied = Lerped({manual, "jawOpen"})]
          /\ UNCHANGED <<lastViseme, visemeTransition, run>>
        ELSE IF lipsync THEN
          /\ lastViseme' = activeViseme
          /\ visemeTransition' = progress
          /\ frame' = [outcome |-> "lipsync",
                       level |-> level,
                       intensity |-> Intensity(level, progress),
                       applied |-> Lerped({activeViseme} \cup
                                   (IF JawMoves(level, progress) THEN {"jawOpen"} ELSE {})),
                       dt |-> dt,
                       from |-> visemeTransition,
                       agora |-> agoraViseme]
          /\ run' = IF dt # Dt60 THEN 0
                    ELSE IF changed THEN 1
                    ELSE IF run = 0 THEN 0
                    ELSE Min(run + 1, MaxRun)
        ELSE IF cue = "inside" THEN
          \* const mouthShape = mouthMorphTargets[visemeValue]: the name is
          \* not declared anywhere in the module, the statement throws
          /\ frame' = [NoFrame EXCEPT !.outcome = "threw", !.level = level]
          /\ UNCHANGED <<lastViseme, visemeTransition, run>>
        ELSE
          /\ frame' = [NoFrame EXCEPT !.outcome = "idle", !.level = level]
          /\ UNCHANGED <<lastViseme, visemeTransition, run>>
     /\ UNCHANGED <<hookVars, appVars, authVars>>

Deltas == {0, Dt60 \div 2, Dt60, 2 * Dt60, 4 * Dt60}
ManualVisemes == {NoViseme} \cup VisemeCodes
AgoraVisemes == {NoViseme, "viseme_E"}
AgoraLevels == {0, LevelDen \div 2, 2 * LevelDen}
Cues == {"none", "inside", "outside"}

\* The frames the loop is fed while the Avatar is observed.
AvatarSignals ==
  { <<4, 4, 4, 4, 4, 4>>, <<200, 0, 0, 0, 0, 0>>, <<0, 0, 0, 0, 220, 0>> }

AvatarFrameStep ==
  \E setup \in BOOLEAN, manual \in ManualVisemes, agoraViseme \in AgoraVisemes,
     agoraLevel \in AgoraLevels, cue \in Cues, dt \in Deltas :
       AvatarFrame(setup, manual, agoraViseme, agoraLevel, cue, dt)

AvatarTickStep ==
  \E id \in rafQueue, s \in AvatarSignals : Tick(id, s, FALSE, FALSE)

NextAvatar == AvatarTickStep \/ VisualizerEffect \/ AvatarFrameStep

\* The connected hook of InitClassify, observed through the Avatar.
SpecAvatar == InitClassify /\ [][NextAvatar]_vars

\* ------------------------------------- a session with reconnections
\* The Visualizer connects its audio element again (a new file is chosen).
SessionConnectStep ==
  \E s \in AvatarSignals : ConnectAudio("audioA", "none", "running", s, FALSE, FALSE)

NextSession == NextAvatar \/ DisconnectAudio \/ SessionConnectStep

\* The Avatar observed while the hook is disconnected and connected again.
SpecSession == InitClassify /\ [][NextSession]_vars

\* ===================================================================
\* Properties
\* ===================================================================

\* ------------------------------------------------ PlayFabProvider: operations
Usernames == {"alice", Undefined}     \* RequireBothUsernameAndEmail: false
Emails == {"a@example.com", "b@example.com"}
Passwords == {"hunter2"}
Tickets == {"ticket1", "ticket2"}     \* SessionTicket of a response
PlayFabIds == {"P1"}                  \* PlayFabId of a response
CustomIds == {"user_1"}               \* what Date.now and Math.random give
Messages == {"PlayFab API error", "Invalid email address or password"}

\* generateCustomId: the identifier it returns
CustomIdOf(storage, fresh) ==
  IF storage.playfab_custom_id # Absent THEN storage.playfab_custom_id ELSE fresh

\* generateCustomId: localStorage after the call
GenerateCustomId(storage, fresh) ==
  [storage EXCEPT !.playfab_custom_id = CustomIdOf(storage, fresh)]

Request(kind, step, username, email, password, customId) ==
  [id |-> started + 1, kind |-> kind, step |-> step, username |-> username,
   email |-> email, password |-> password, customId |-> customId,
   ticket |-> Absent, playFabId |-> Absent, stale |-> FALSE]

CanStart == started < MaxRequests

\* setLoading(true); setError(null), and the request sent at the first await
Begin(op, request, storage) ==
  /\ CanStart
  /\ loading' = TRUE
  /\ error' = Absent
  /\ localStorage' = storage
  /\ pending' = pending \cup {request}
  /\ started' = started + 1
  /\ lastAuth' = [op |-> op, step |-> Absent, outcome |-> "started",
                  message |-> Absent, stale |-> FALSE]
  /\ UNCHANGED <<isAuthenticated, user, sessionTicket, loggedOut>>
  /\ UNCHANGED <<hookVars, appVars, avatarVars>>

registerUser(username, email, password, fresh) ==
  Begin("registerUser",
        Request("registerUser", "RegisterPlayFabUser", username, email, password,
                CustomIdOf(localStorage, fresh)),
        GenerateCustomId(localStorage, fresh))

loginWithEmail(email, password) ==
  Begin("loginWithEmail",
        Request("loginWithEmail", "LoginWithEmailAddress", Undefined, email, password,
                Absent),
        localStorage)

loginWithCustomId(fresh) ==
  Begin("loginWithCustomId",
        Request("loginWithCustomId", "LoginWithCustomID", Undefined, Undefined,
                Undefined, CustomIdOf(localStorage, fresh)),
        GenerateCustomId(localStorage, fresh))

SessionUserWithPassword(r, playFabId, customId) ==
  UserObject(UserKeys, playFabId, r.username, r.password, customId)

\* The object given to setUser and to JSON.stringify by each operation.
SessionUser(r, playFabId, customId) ==
  CASE r.kind = "registerUser" ->
         UserObject(UserKeys, playFabId, r.username, r.email, customId)
    [] r.kind = "loginWithEmail" ->
         UserObject({"PlayFabId", "Email", "CustomId"}, playFabId, Undefined, r.email,
                    customId)
    [] OTHER ->
         UserObject({"PlayFabId", "CustomId"}, playFabId, Undefined, Undefined, customId)

FailedClearsSession(r, message) ==
  /\ error' = message
  /\ loading' = FALSE
  /\ pending' = pending \ {r}
  /\ lastAuth' = [op |-> r.kind, step |-> r.step, outcome |-> "failed",
                  message |-> message, stale |-> r.stale]
  /\ isAuthenticated' = FALSE
  /\ user' = NoUser
  /\ sessionTicket' = Absent
  /\ localStorage' = [localStorage EXCEPT !.playfab_session_ticket = Absent,
                                          !.playfab_user = NoItem]
  /\ UNCHANGED <<started, loggedOut>>
  /\ UNCHANGED <<hookVars, appVars, avatarVars>>

\* makePlayFabRequest throws: catch { setError(error.message); throw error }
\* finally { setLoading(false) }
Failed(r, message) ==
  /\ error' = message
  /\ loading' = FALSE
  /\ pending' = pending \ {r}
  /\ lastAuth' = [op |-> r.kind, step |-> r.step, outcome |-> "failed",
                  message |-> message, stale |-> r.stale]
  /\ UNCHANGED <<isAuthenticated, user, sessionTicket, localStorage, started, loggedOut>>
  /\ UNCHANGED <<hookVars, appVars, avatarVars>>

\* RegisterPlayFabUser answered: registerUser goes on to its second await.
Registered(r, ticket, playFabId) ==
  /\ pending' = (pending \ {r}) \cup
                  {[r EXCEPT !.step = "LinkCustomID", !.ticket = ticket,
                             !.playFabId = playFabId]}
  /\ lastAuth' = [op |-> r.kind, step |-> r.step, outcome |-> "registered",
                  message |-> Absent, stale |-> r.stale]
  /\ UNCHANGED <<isAuthenticated, user, sessionTicket, loading, error, localStorage,
                 started, loggedOut>>
  /\ UNCHANGED <<hookVars, appVars, avatarVars>>

\* The last await answered: the session is saved in state and in localStorage.
Succeeded(r, ticket, playFabId, fresh) ==
  LET customId == IF r.kind = "loginWithEmail"
                    THEN CustomIdOf(localStorage, fresh)
                    ELSE r.customId
      storage == IF r.kind = "loginWithEmail"
                   THEN GenerateCustomId(localStorage, fresh)
                   ELSE localStorage
      saved == SessionUser(r, playFabId, customId)
  IN /\ sessionTicket' = ticket
     /\ user' = saved
     /\ isAuthenticated' = TRUE
     /\ localStorage' = [storage EXCEPT !.playfab_session_ticket = ticket,
                                        !.playfab_user = JsonStringify(saved)]
     /\ loading' = FALSE
     /\ pending' = pending \ {r}
     /\ lastAuth' = [op |-> r.kind, step |-> r.step, outcome |-> "ok",
                     message |-> Absent, stale |-> r.stale]
     /\ loggedOut' = (r.stale /\ loggedOut)
     /\ UNCHANGED <<error, started>>
     /\ UNCHANGED <<hookVars, appVars, avatarVars>>

\* The answer to the request an operation is awaiting.
Respond(r, ok, ticket, playFabId, message, fresh) ==
  IF ~ok THEN Failed(r, message)
  ELSE IF r.step = "RegisterPlayFabUser" THEN Registered(r, ticket, playFabId)
  ELSE IF r.step = "LinkCustomID" THEN Succeeded(r, r.ticket, r.playFabId, fresh)
  ELSE Succeeded(r, ticket, playFabId, fresh)

LogoutKeepsStorage ==
  /\ isAuthenticated' = FALSE
  /\ user' = NoUser
  /\ sessionTicket' = Absent
  /\ error' = Absent
  /\ pending' = {[r EXCEPT !.stale = TRUE] : r \in pending}
  /\ lastAuth' = [op |-> "logout", step |-> Absent, outcome |-> "ok",
                  message |-> Absent, stale |-> FALSE]
  /\ loggedOut' = TRUE
  /\ UNCHANGED <<loading, started, localStorage>>
  /\ UNCHANGED <<hookVars, appVars, avatarVars>>

LogoutKeepsState ==
  /\ isAuthenticated' = FALSE
  /\ user' = user
  /\ sessionTicket' = sessionTicket
  /\ error' = Absent
  /\ localStorage' = [localStorage EXCEPT !.playfab_session_ticket = Absent,
                                          !.playfab_user = NoItem]
  /\ pending' = {[r EXCEPT !.stale = TRUE] : r \in pending}
  /\ lastAuth' = [op |-> "logout", step |-> Absent, outcome |-> "ok",
                  message |-> Absent, stale |-> FALSE]
  /\ loggedOut' = TRUE
  /\ UNCHANGED <<loading, started>>
  /\ UNCHANGED <<hookVars, appVars, avatarVars>>

\* logout(): the requests in flight are left to run.
Logout ==
  /\ isAuthenticated' = FALSE
  /\ user' = NoUser
  /\ sessionTicket' = Absent
  /\ error' = Absent
  /\ localStorage' = [localStorage EXCEPT !.playfab_session_ticket = Absent,
                                          !.playfab_user = NoItem]
  /\ pending' = {[r EXCEPT !.stale = TRUE] : r \in pending}
  /\ lastAuth' = [op |-> "logout", step |-> Absent, outcome |-> "ok",
                  message |-> Absent, stale |-> FALSE]
  /\ loggedOut' = TRUE
  /\ UNCHANGED <<loading, started>>
  /\ UNCHANGED <<hookVars, appVars, avatarVars>>

\* if (savedTicket && savedUser)
Restorable(storage) ==
  storage.playfab_session_ticket # Absent /\ storage.playfab_user # NoItem

\* A fresh mount of the provider after a reload of the page: the state of
\* useState, no request of the old page, then the restore effect.
Mount ==
  /\ IF Restorable(localStorage)
       THEN /\ sessionTicket' = localStorage.playfab_session_ticket
            /\ user' = JsonParse(localStorage.playfab_user)
            /\ isAuthenticated' = TRUE
       ELSE /\ sessionTicket' = Absent
            /\ user' = NoUser
            /\ isAuthenticated' = FALSE
  /\ loading' = FALSE
  /\ error' = Absent
  /\ pending' = {}
  /\ lastAuth' = [op |-> "mount",
                  step |-> Absent,
                  outcome |-> IF Restorable(localStorage) THEN "restored" ELSE "empty",
                  message |-> Absent, stale |-> FALSE]
  /\ UNCHANGED <<localStorage, started, loggedOut>>
  /\ UNCHANGED <<hookVars, appVars, avatarVars>>

RegisterStep ==
  \E username \in Usernames, email \in Emails, password \in Passwords,
     fresh \in CustomIds :
    registerUser(username, email, password, fresh)

LoginEmailStep ==
  \E email \in Emails, password \in Passwords : loginWithEmail(email, password)

LoginCustomIdStep == \E fresh \in CustomIds : loginWithCustomId(fresh)

RespondStep ==
  \E r \in pending, ok \in BOOLEAN, ticket \in Tickets, playFabId \in PlayFabIds,
     message \in Messages, fresh \in CustomIds :
    Respond(r, ok, ticket, playFabId, message, fresh)

NextAuth ==
  \/ RegisterStep
  \/ LoginEmailStep
  \/ LoginCustomIdStep
  \/ RespondStep
  \/ Logout
  \/ Mount

SpecAuth == Init /\ [][NextAuth]_vars


\* The sum of the bins of the frame s, region by region.
FrameSum(s) == 8 * s[1] + 12 * s[2] + 20 * s[3] + 30 * s[4] + 40 * s[5] + 18 * s[6]

\* The formant energy f1 + f2 + f3 + f4 + highF of the frame s, which is a
\* region-wise constant frame, so each band mean is the region's magnitude.
FrameEnergy(s) == s[1] + s[2] + s[3] + s[4] + s[5]

\* C1: after disconnectAudio() returns, no analysis tick executes until the
\* next connectAudio(): between a disconnect and the following connect the
\* tick counter does not increase.
C1_NoTickAfterDisconnect ==
  [][(sinceDisconnect /\ sinceDisconnect') => tickCount' = tickCount]_vars

\* C1 witness: a loop that ran ticks was disconnected and nothing is pending.
C1_Witness ==
  sinceDisconnect /\ lastOp = "disconnect" /\ tickCount >= 2 /\ rafQueue = {}

\* C2: immediately after disconnectAudio() the exposed snapshot is the
\* silence default: label viseme_sil, volume 0, isConnected false.
C2_SilenceAfterDisconnect ==
  lastOp = "disconnect" =>
    viseme = "viseme_sil" /\ features.volume = 0 /\ ~isConnected

\* C3: connectAudio called again with the same element on an already
\* connected, non-suspended graph creates no AudioContext and no analyser:
\* the node counts are those found by the call, one of each.
C3_ConnectIdempotent ==
  (lastOp = "connect" /\ lastCall.again) =>
    /\ created = lastCall.created
    /\ created.contexts = 1
    /\ created.analysers = 1

\* C3 witness: two connects in a row on the connected, running graph.
C3_Witness ==
  lastOp = "connect" /\ lastCall.again /\ isConnected /\ tickCount >= 1

\* C4: a tick whose analysis throws leaves viseme and features as the
\* previous tick set them and still schedules the next tick.
C4_FailedTickKeepsLoop ==
  [][(tickCount' = tickCount + 1 /\ lastAnalysis' = "threw") =>
       /\ viseme' = viseme
       /\ features' = features
       /\ animationFrameRef' # Null
       /\ animationFrameRef' \in rafQueue']_vars

\* C4 witness: the tick after a successful one threw; the label of the
\* successful tick is still exposed and a callback is pending.
C4_Witness ==
  /\ lastOp = "tick" /\ lastAnalysis = "threw"
  /\ viseme = "viseme_aa" /\ analysed # NoSignal
  /\ animationFrameRef \in rafQueue

\* C5: when graph construction fails inside connectAudio, nothing reaches
\* the caller, isConnected is false and the call starts no analysis loop.
C5_ConstructionFailureContained ==
  lastOp = "connectFailed" =>
    /\ ~propagated
    /\ ~isConnected
    /\ tickCount = lastCall.ticks
    /\ animationFrameRef = Null
    /\ rafQueue = {}

\* C5 witness: createMediaElementSource threw after the context and the
\* analyser were created.
C5_Witness ==
  lastOp = "connectFailed" /\ audioContextRef # Null /\ audioAnalyserRef # Null

\* C6: every frame whose volume is at most 0.02 is labelled viseme_sil,
\* whatever its band energies.
C6_QuietIsSilence ==
  (analysed # NoSignal /\ 50 * FrameSum(analysed) <= LevelDen) =>
    viseme = "viseme_sil"

\* C6 witness: a quiet frame whose formant energy is above the floor of 10.
C6_Witness ==
  /\ analysed # NoSignal
  /\ 50 * FrameSum(analysed) <= LevelDen
  /\ FrameEnergy(analysed) > 10
  /\ viseme = "viseme_sil"

\* A frame with bins 70..109 at 220 and every other bin at most 38.
HighBandFrame(s) ==
  s # NoSignal /\ s[5] = 220 /\ \A r \in {1, 2, 3, 4, 6} : s[r] <= 38

\* C10 as stated: a frame with bins 70..109 = 220 and the rest low is
\* classified viseme_SS or viseme_CH.
C10_HighBandIsSibilant ==
  HighBandFrame(analysed) => viseme \in {"viseme_SS", "viseme_CH"}

\* C10 amended: such a frame is classified viseme_U, because the rule
\* nf1 < 0.15 && nf2 < 0.2 && nhighF > 0.25 precedes the rule nhighF > 0.35.
C10_HighBandIsU ==
  HighBandFrame(analysed) => viseme = "viseme_U"

\* C10 witness: the frame of the scenario with the other bins at 0.
C10_Witness ==
  analysed = <<0, 0, 0, 0, 220, 0>> /\ viseme = "viseme_U"

\* C7: for every tick whose volume is at most the classifier's silence
\* threshold 0.02, the intensity the Avatar applies for the viseme is 0.
C7_QuietHasNoIntensity ==
  (frame.outcome # "none" /\ 50 * frame.level <= LevelDen) => frame.intensity = 0

\* C8: on every frame the viseme intensity lies in [0,1] (the numerator in
\* 0 .. LevelDen * ProgressScale) and so does transitionProgress, for every
\* audio level >= 0, every deltaTime >= 0 and every sequence of labels.
C8_IntensityInRange ==
  /\ 0 <= frame.intensity /\ frame.intensity <= LevelDen * ProgressScale
  /\ 0 <= visemeTransition /\ visemeTransition <= ProgressScale

\* C8 witness: a lip-sync frame whose level times the gain exceeds 1, on a
\* label that followed another one, at full intensity.
C8_Witness ==
  /\ frame.outcome = "lipsync"
  /\ frame.level * Gain > LevelDen
  /\ frame.intensity = LevelDen * ProgressScale
  /\ tickCount >= 3

\* C9: while the label stays the same transitionProgress never decreases,
\* and after 20 lip-sync frames at 60 Hz on one label it is 1.
C9_TransitionMonotonic ==
  [][/\ lastViseme' = lastViseme => visemeTransition' >= visemeTransition
     /\ run' >= 20 => visemeTransition' = ProgressScale]_vars

\* C9 witness: the 20th frame at 60 Hz on one label.
C9_Witness ==
  frame.outcome = "lipsync" /\ run >= 20 /\ visemeTransition = ProgressScale

\* The frame s passes both gates of the classifier: volume > 0.02 and
\* f1 + f2 + f3 + f4 + highF > 10.
Voiced(s) == 50 * FrameSum(s) > LevelDen /\ FrameEnergy(s) > 10

\* C11: every frame above the silence threshold and the energy floor with
\* nf1 > 0.25 and nf2 < 0.2 is labelled viseme_aa, whatever the other bands
\* hold; the frame with bins 0..7 = 200 and the rest 0 is one of them.
C11_LowBandIsOpenVowel ==
  (/\ analysed # NoSignal
   /\ Voiced(analysed)
   /\ 4 * analysed[1] > FrameEnergy(analysed)
   /\ 5 * analysed[2] < FrameEnergy(analysed)) => viseme = "viseme_aa"

\* C11 witness: the frame of the scenario, labelled viseme_aa.
C11_Witness ==
  analysed = <<200, 0, 0, 0, 0, 0>> /\ viseme = "viseme_aa"

\* C12: two consecutive successful ticks on the same frequency frame expose
\* the same viseme label.
C12_SameFrameSameLabel ==
  [][(/\ tickCount' = tickCount + 1
      /\ lastAnalysis = "ok" /\ lastAnalysis' = "ok"
      /\ analysed # NoSignal /\ analysed' = analysed) => viseme' = viseme]_vars

\* C13: a frame with volume > 0.02 whose formant energy f1 + .. + highF is
\* not above 10 is labelled viseme_sil; a frame with energy only in bins
\* 110..127 is such a frame.
C13_LowEnergyIsSilence ==
  (/\ analysed # NoSignal
   /\ 50 * FrameSum(analysed) > LevelDen
   /\ FrameEnergy(analysed) <= 10) => viseme = "viseme_sil"

\* C13 witness: a loud frame whose formant energy is positive and at most 10,
\* the loudness coming from bins 110..127.
C13_Witness ==
  /\ analysed # NoSignal
   /\ 50 * FrameSum(analysed) > LevelDen
   /\ FrameEnergy(analysed) > 0 /\ FrameEnergy(analysed) <= 10
   /\ analysed[6] > 0
   /\ viseme = "viseme_sil"

\* Every bin of the frame s has the same magnitude.
Uniform(s) == s # NoSignal /\ \A r \in 1..6 : s[r] = s[1]

\* C14 as stated: for a frame with every bin at M the volume is M / 255 and
\* every band of the feature set is M.
C14_UniformBandsAreM ==
  Uniform(analysed) =>
    /\ features.volume * ByteMax = analysed[1] * LevelDen
    /\ \A k \in 1..NumBands :
         features.bands[k] = analysed[1] * (NumBins \div NumBands) * ByteMax

\* C14 amended: for a frame with every bin at M the volume is M / 255, every
\* band of the feature set is M / 255 (normalised like the volume), and every
\* formant band mean of the classifier is M.
C14_UniformFrameFeatures ==
  Uniform(analysed) =>
    /\ features.volume * ByteMax = analysed[1] * LevelDen
    /\ \A k \in 1..NumBands :
         features.bands[k] * ByteMax = analysed[1] * (NumBins \div NumBands) * ByteMax
    /\ \A k \in 1..5 :
         FormantBands(FrequencyData(analysed))[k] = analysed[1] * FormantDen

\* C14 witness: the frame with every bin at 255, of volume 1.
C14_Witness ==
  /\ Uniform(analysed) /\ analysed[1] = ByteMax
  /\ features.volume = LevelDen
  /\ \A k \in 1..NumBands : features.bands[k] = ByteMax * (NumBins \div NumBands)

\* C15: disconnectAudio leaves the context, its state and the analyser as
\* they are; a connectAudio after a disconnect that finds a context keeps it
\* and the analyser; and no more than one AudioContext is ever created.
C15_ContextSurvivesDisconnect ==
  [][/\ lastOp' = "disconnect" =>
          UNCHANGED <<audioContextRef, audioAnalyserRef, contextState, created>>
     /\ (lastOp' = "connect" /\ lastCall'.reconnect /\ audioContextRef # Null) =>
          UNCHANGED <<audioContextRef, audioAnalyserRef, created>>
     /\ created'.contexts <= 1]_vars

\* C15 witness: a connect after a disconnect on the graph the first connect
\* built: still the one context, connected again.
C15_Witness ==
  /\ lastOp = "connect" /\ lastCall.reconnect
  /\ lastCall.created.contexts = 1 /\ created.contexts = 1
  /\ audioContextRef = 1 /\ audioAnalyserRef = 1 /\ isConnected

\* connectAudio(el) was just called after a disconnectAudio() that followed
\* a connectAudio(el), on a graph whose analyser exists.
Reconnected ==
  /\ lastOp \in {"connect", "connectFailed", "connectNoElement"}
  /\ lastCall.reconnect
  /\ lastCall.created.analysers >= 1

\* C16: after disconnectAudio() and connectAudio() with the same element
\* isConnected is true and a callback is scheduled; and, the host delivering
\* frames, a tick then runs and sets viseme and features from its frame
\* (unless disconnectAudio is called first or the explored number of ticks
\* is used up).
C16_ReconnectRestartsLoop ==
  /\ [](Reconnected =>
          isConnected /\ animationFrameRef # Null /\ animationFrameRef \in rafQueue)
  /\ ((Reconnected /\ tickCount < MaxTicks) ~>
        \/ lastOp = "tick" /\ lastAnalysis = "ok" /\ analysed # NoSignal
        \/ sinceDisconnect
        \/ tickCount >= MaxTicks)

\* C16 witness: the tick that follows a reconnection refreshed the outputs.
C16_Witness ==
  /\ lastOp = "tick" /\ lastAnalysis = "ok" /\ analysed # NoSignal
  /\ lastCall.reconnect /\ lastCall.created.analysers >= 1
  /\ isConnected /\ ~sinceDisconnect
  /\ viseme = "viseme_aa" /\ features.volume > 0

\* C17: at most one analysis callback is scheduled, and it is the one whose
\* handle animationFrameRef holds.
C17_OneLoop ==
  /\ Cardinality(rafQueue) <= 1
  /\ rafQueue \subseteq {animationFrameRef}

\* C17 witness: connectAudio called while the loop is running, after ticks.
C17_Witness ==
  /\ lastOp = "connect" /\ lastCall.again /\ lastCall.ticks >= 2
  /\ Cardinality(rafQueue) = 1

\* C18: no element ever has more than one media-element source node.
C18_OneSourcePerElement ==
  \A e \in Elements : created.sources[e] <= 1

\* C18 witness: connectAudio built a graph for an element that another
\* hook instance had attached before; no second source was created.
C18_Witness ==
  /\ lastOp = "connect" /\ lastCall.el = "audioA"
  /\ lastCall.created.sources["audioA"] = 1 /\ lastCall.created.contexts = 0
  /\ created.contexts = 1 /\ created.sources["audioA"] = 1

\* C19: before any connect and any tick the exposed label is viseme_sil.
C19_InitialIsSilence ==
  (lastOp = "init" /\ tickCount = 0) => viseme = "viseme_sil"

\* C20: right after disconnectAudio() the smoothing state of the Avatar is
\* (silence, 0): the transition is 0 and the last label is viseme_sil or
\* still 'X', the value the ref has before any label.
C20_SmoothingResetOnDisconnect ==
  lastOp = "disconnect" =>
    (visemeTransition = 0 /\ lastViseme \in {"viseme_sil", "X"})

\* C21: on a lip-sync frame whose label differs from the last label the
\* progress is 0 advanced by that frame's step, whatever progress the
\* previous label had reached, and the intensity is computed from it.
C21_TransitionRestarts ==
  [][lastViseme' # lastViseme =>
       /\ frame'.outcome = "lipsync"
       /\ visemeTransition' = AdvanceTransition(0, frame'.dt)
       /\ frame'.intensity = Intensity(frame'.level, AdvanceTransition(0, frame'.dt))]_vars

\* C21 witness: a label change at 60 Hz on a frame that found the previous
\* label's transition complete.
C21_Witness ==
  /\ frame.outcome = "lipsync" /\ frame.from = ProgressScale
  /\ run = 1 /\ frame.dt = Dt60
  /\ visemeTransition = AdvanceTransition(0, Dt60)

\* C22: a frame with a manual viseme leaves lastViseme and visemeTransition
\* as they are and applies the manual viseme; on a lip-sync frame with a
\* visualizer viseme present the label used is the visualizer's, whatever
\* the Agora viseme.
C22_ManualAndVisualizerFirst ==
  [][/\ frame'.outcome = "manual" =>
          /\ UNCHANGED <<lastViseme, visemeTransition>>
          /\ frame'.intensity = 0
     /\ (UNCHANGED <<hookVars, appVars>> /\ frame'.outcome = "lipsync"
           /\ visualizerViseme # NoViseme) =>
          /\ lastViseme' = visualizerViseme
          /\ visualizerViseme \in frame'.applied]_vars

\* C22 witness: a lip-sync frame with both a visualizer viseme and a
\* different Agora viseme, the visualizer's applied.
C22_Witness ==
  /\ frame.outcome = "lipsync"
  /\ frame.agora # NoViseme /\ visualizerViseme # NoViseme
  /\ frame.agora # visualizerViseme
  /\ lastViseme = visualizerViseme /\ visualizerViseme \in frame.applied

\* C22 witness of the manual branch: a manual frame while a transition is
\* under way.
C22_ManualWitness ==
  frame.outcome = "manual" /\ visemeTransition > 0 /\ "jawOpen" \in frame.applied

\* C25: whenever isConnected is true an analyser exists and this hook has
\* wired an audio source into it.
C25_ConnectedGraphComplete ==
  isConnected => (audioAnalyserRef # Null /\ wired # {})

\* C29: on a frame with a manual viseme from the BlendShapeController the
\* Avatar applies a viseme blend shape: the code it was given is one of the
\* Oculus viseme names.
C29_ManualCodeIsBlendShape ==
  frame.outcome = "manual" => frame.applied \cap oculusVisemes # {}

\* C30: a frame of the fallback path whose playback time lies inside a mouth
\* cue completes without error and applies the viseme mapped to the cue.
C30_FallbackCompletes ==
  frame.outcome \in {"threw", "fallback"} =>
    (frame.outcome = "fallback" /\ frame.applied \cap oculusVisemes # {})

\* What a reader of the user record gets for each of its properties.
SameUser(u, v) == \A k \in UserKeys : u.fields[k] = v.fields[k]

\* C23: a fresh mount of the provider gives back the session that was in
\* state before the reload (isAuthenticated, the same ticket, the same
\* property values of the user), and gives isAuthenticated = false when no
\* session was held, as after logout.
C23_SessionRestoredOnReload ==
  [][lastAuth'.op = "mount" =>
       /\ isAuthenticated' = isAuthenticated
       /\ sessionTicket' = sessionTicket
       /\ SameUser(user', user)]_vars

C23_Witness ==
  /\ lastAuth.op = "mount"
  /\ lastAuth.outcome = "restored"
  /\ isAuthenticated
  /\ sessionTicket = "ticket2"
  /\ user.fields.Email = "b@example.com"
  /\ user.fields.Username = Undefined

C23_LogoutWitness ==
  /\ lastAuth.op = "mount"
  /\ lastAuth.outcome = "empty"
  /\ loggedOut
  /\ localStorage.playfab_custom_id # Absent

\* The values a JSON text carries.
JsonValues(text) == {text[i][2] : i \in 1..Len(text)}

\* Every string held locally: the entries of localStorage and the
\* properties of the user state.
StoredLocally ==
  {localStorage.playfab_session_ticket, localStorage.playfab_custom_id}
    \cup JsonValues(localStorage.playfab_user)
    \cup {user.fields[k] : k \in UserKeys}

\* C24: no entry of localStorage and no property of the user state holds a
\* password that was passed to registerUser or loginWithEmail.
C24_PasswordNeverStored == StoredLocally \cap Passwords = {}

C24_Witness ==
  /\ isAuthenticated
  /\ lastAuth.op \in {"registerUser", "loginWithEmail"}
  /\ lastAuth.outcome = "ok"
  /\ localStorage.playfab_user = JsonStringify(user)
  /\ \E r \in pending : r.password \in Passwords

\* C26: after logout, until a request started after it succeeds, the user
\* is not authenticated and no session ticket is held or persisted.
C26_LogoutHolds ==
  loggedOut =>
    /\ ~isAuthenticated
    /\ sessionTicket = Absent
    /\ localStorage.playfab_session_ticket = Absent

\* C27: isAuthenticated is true exactly when a session ticket and a user
\* record are both held in state.
C27_AuthenticatedIffSession ==
  isAuthenticated <=> (sessionTicket # Absent /\ user # NoUser)

C27_Witness ==
  /\ isAuthenticated
  /\ lastAuth.op = "loginWithCustomId"
  /\ lastAuth.outcome = "ok"
  /\ lastAuth.stale

C27_LogoutWitness ==
  /\ lastAuth.op = "logout"
  /\ ~isAuthenticated
  /\ pending # {}
  /\ localStorage.playfab_custom_id # Absent

====
